---- MODULE Spec2Model ----
(***************************************************************************)
(* A model of the Unity FFI bridge of rustdesk:                            *)
(*   src/src/plugin/unity.rs  plugin-event callback slot, dispatch_event,  *)
(*                            the exported plugin entry points             *)
(*   src/src/unity.rs         video-frame callback slot, notify_video_frame*)
(*                                                                         *)
(* The specifications share the variables:                                 *)
(*   Spec, SpecReturning, SpecSeq     threads registering and dispatching  *)
(*                                    through the two RwLock-guarded slots *)
(*   SpecFrame                        notify_video_frame's argument        *)
(*                                    derivation, one call at a time       *)
(*   SpecProxy                        the exported plugin entry points     *)
(*                                    against a plugin manager that may    *)
(*                                    answer either way                    *)
(*   SpecNotify                       the four plugin notifications        *)
(*   SpecPlugins                      the plugin listing and its release   *)
(*   SpecBridge                       every function of the bridge, called *)
(*                                    one after the other                  *)
(***************************************************************************)
EXTENDS Integers, Sequences, FiniteSets, TLC

(***************************************************************************)
(* Bounds of the model.                                                    *)
(***************************************************************************)
\* call depth of one thread: a dispatch, and the calls its callback makes
MaxDepth == 2
\* distinct host functions that can be registered
NumCallbacks == 2

\* The native threads calling into the bridge: a host thread and a worker.
Threads == {"host", "worker"}
NoThread == "none"

Kinds == {"event", "video"}

(***************************************************************************)
(* A callback slot holds Option<extern "C" fn>: one nullable pointer.  The *)
(* pointer is modelled as two half-words <<hi, lo>>, so that a store is    *)
(* two writes and only the lock makes it atomic.  Fn(i) is host function i,*)
(* None the null pointer.                                                  *)
(***************************************************************************)
None == <<0, 0>>
Fn(i) == <<i, i>>
HostFns == {Fn(i) : i \in 1..NumCallbacks}
CallbackArgs == HostFns \cup {None}

VARIABLES
    slot,        \* slot[k]: content of EVENT_CALLBACK / VIDEO_FRAME_CALLBACK
    writer,      \* writer[k]: the thread holding the write guard, or NoThread
    readers,     \* readers[k][t]: read guards thread t holds on slot k
    stack,       \* stack[t]: the bridge calls thread t is inside, innermost last
    writerPref,  \* whether the platform's RwLock blocks readers behind a waiting writer
    scope,       \* the kinds of callback this run registers and dispatches
    aborted,     \* a panic reached an extern "C" frame: the process is gone
    lastReg,     \* history: lastReg[k] is the argument of the last register call that returned
    registered,  \* history: registered[k] is the set of arguments passed to register so far
    vf,          \* the last notify_video_frame call: its arguments and what the callback received
    px,          \* the last exported plugin call: its arguments, the collaborator calls, the result
    ev,          \* the last plugin notification: its tag and payload and what the callback received
    infos,       \* the plugin manager's descriptor table: plugin id -> PluginInfo
    gp           \* the last rustdesk_unity_get_plugins call: what it read and returned

regVars == <<slot, writer, readers, stack, writerPref, scope, aborted, lastReg, registered>>

\* what the registry's steps leave alone
others == <<scope, vf, px, ev, infos, gp>>

vars == <<regVars, vf, px, ev, infos, gp>>

(***************************************************************************)
(* The records vf and px hold.                                             *)
(***************************************************************************)
\* a frame the video pipeline has produced, not yet passed to the bridge
Frame0(display, width, height, hint, format, len) ==
    [called |-> FALSE, peer |-> <<>>, display |-> display, width |-> width,
     height |-> height, hint |-> hint, format |-> format, len |-> len,
     invoked |-> 0, cb |-> None, a_peer |-> <<>>, a_display |-> 0, a_width |-> 0,
     a_height |-> 0, a_stride |-> 0, a_format |-> 0, a_len |-> 0,
     \* history: the slot content this call read, and the callback the call
     \* before it found registered and did not invoke for its peer id (or None)
     seen |-> None, dropped_for |-> None]

NoFrame == Frame0(0, 0, 0, 0, "Raw", 0)

\* a C string argument of the host: a null pointer, or a pointer to bytes
NullPtr == [null |-> TRUE, bytes |-> <<>>]
Ptr(bytes) == [null |-> FALSE, bytes |-> bytes]

\* an exported plugin call: entry is the function, id and peer its pointer
\* arguments, event and len its buffer; calls are the collaborator calls it
\* made, ret the PluginReturn it returned
ProxyCall(entry, id, peer, event, len, calls, ret) ==
    [called |-> TRUE, entry |-> entry, id |-> id, peer |-> peer, event |-> event,
     len |-> len, calls |-> calls, ret |-> ret]

NoProxyCall ==
    [called |-> FALSE, entry |-> "", id |-> NullPtr, peer |-> NullPtr, event |-> <<>>,
     len |-> 0, calls |-> <<>>, ret |-> [code |-> 0, msg |-> ""]]

\* a plugin notification: entry is the notify function, tag and payload the
\* strings it passes to dispatch_event
EventCall(entry, tag, payload) ==
    [called |-> TRUE, entry |-> entry, tag |-> tag, payload |-> payload,
     invoked |-> 0, cb |-> None, a_type |-> <<>>, a_payload |-> <<>>,
     \* history: the slot content this call read, and the callback the call
     \* before it found registered and did not invoke (or None)
     seen |-> None, dropped_for |-> None]

NoEvent == [EventCall("", <<>>, <<>>) EXCEPT !.called = FALSE]

\* the descriptor table with no plugin in it
NoInfos == [id \in {} |-> [desc |-> <<>>, path |-> <<>>, uninstalled |-> FALSE]]

\* a rustdesk_unity_get_plugins call: snapshot is the table it read, payload
\* the Vec of JSON objects it built, text the bytes of the string it
\* returned, live whether the host still owns that string
Listing(snapshot, payload, text) ==
    [called |-> TRUE, snapshot |-> snapshot, payload |-> payload, text |-> text,
     live |-> TRUE]

NoListing == [Listing(NoInfos, <<>>, <<>>) EXCEPT !.called = FALSE, !.live = FALSE]

(***************************************************************************)
(* Call frames.  fn is "register" or "dispatch"; pc is the position in the *)
(* function; arg the callback passed to register; cb the local copy of the *)
(* slot a dispatch made; enc whether the strings of this dispatch encode   *)
(* as CStrings (no interior NUL); calls the invocations this dispatch made.*)
(***************************************************************************)
Frame(fn, k, pc, arg, enc) ==
    [fn |-> fn, kind |-> k, pc |-> pc, arg |-> arg, cb |-> None,
     enc |-> enc, calls |-> 0]

Depth(t) == Len(stack[t])
Top(t) == stack[t][Len(stack[t])]
Idle(t) == stack[t] = <<>>
At(t, fn, k, pc) ==
    /\ ~Idle(t)
    /\ Top(t).fn = fn
    /\ Top(t).kind = k
    /\ Top(t).pc = pc

Push(t, f) == [stack EXCEPT ![t] = Append(@, f)]
Pop(t) == [stack EXCEPT ![t] = SubSeq(@, 1, Len(@) - 1)]
SetTop(t, f) == [stack EXCEPT ![t][Len(stack[t])] = f]

(***************************************************************************)
(* std::sync::RwLock.  write() waits until no guard is held; read() waits  *)
(* until no write guard is held and, on a writer-preferring platform,      *)
(* until no writer is waiting.                                             *)
(***************************************************************************)
WriterWaiting(k) == \E t \in Threads : At(t, "register", k, "write_wait")

WriteLockFree(k) ==
    /\ writer[k] = NoThread
    /\ \A t \in Threads : readers[k][t] = 0

ReadLockFree_IgnoresWriter(k) == writerPref => ~WriterWaiting(k)

ReadLockFree(k) ==
    /\ writer[k] = NoThread
    /\ (writerPref => ~WriterWaiting(k))

HoldsGuard(t, k) == readers[k][t] > 0 \/ writer[k] = t

(***************************************************************************)
(* Calls into the bridge.  A thread that is outside the bridge starts a    *)
(* top-level call; a host callback that is running may call back into the  *)
(* bridge for the kind it was invoked for.                                 *)
(***************************************************************************)
CallRegister(t, k, cb) ==
    /\ ~aborted
    /\ Idle(t)
    /\ stack' = Push(t, Frame("register", k, "write_wait", cb, TRUE))
    /\ registered' = [registered EXCEPT ![k] = @ \cup {cb}]
    /\ UNCHANGED <<slot, writer, readers, writerPref, others, aborted, lastReg>>

CallDispatch(t, k, enc) ==
    /\ ~aborted
    /\ Idle(t)
    /\ stack' = Push(t, Frame("dispatch", k, "read_wait", None, enc))
    /\ UNCHANGED <<slot, writer, readers, writerPref, others, aborted, lastReg, registered>>

InCallback(t) == ~Idle(t) /\ Top(t).fn = "dispatch" /\ Top(t).pc = "in_callback"

HostRegister(t, cb) ==
    /\ ~aborted
    /\ InCallback(t)
    /\ Depth(t) < MaxDepth
    /\ stack' = Push(t, Frame("register", Top(t).kind, "write_wait", cb, TRUE))
    /\ registered' = [registered EXCEPT ![Top(t).kind] = @ \cup {cb}]
    /\ UNCHANGED <<slot, writer, readers, writerPref, others, aborted, lastReg>>

HostDispatch(t, enc) ==
    /\ ~aborted
    /\ InCallback(t)
    /\ Depth(t) < MaxDepth
    /\ stack' = Push(t, Frame("dispatch", Top(t).kind, "read_wait", None, enc))
    /\ UNCHANGED <<slot, writer, readers, writerPref, others, aborted, lastReg, registered>>

(***************************************************************************)
(* rustdesk_unity_register_event_callback and                              *)
(* rustdesk_unity_register_video_frame_callback:                           *)
(*     let mut guard = SLOT.write().unwrap();  *guard = callback;          *)
(* The store is two half-word writes; the guard is dropped on return.      *)
(***************************************************************************)
StoreHalf_KeepsRegistered(old, arg, h) ==
    IF arg = None THEN old ELSE [old EXCEPT ![h] = arg[h]]

StoreHalf(old, arg, h) == [old EXCEPT ![h] = arg[h]]

RegisterLock(t) ==
    /\ ~aborted
    /\ ~Idle(t)
    /\ Top(t).fn = "register"
    /\ Top(t).pc = "write_wait"
    /\ WriteLockFree(Top(t).kind)
    /\ writer' = [writer EXCEPT ![Top(t).kind] = t]
    /\ slot' = [slot EXCEPT ![Top(t).kind] = StoreHalf(@, Top(t).arg, 1)]
    /\ stack' = SetTop(t, [Top(t) EXCEPT !.pc = "store"])
    /\ UNCHANGED <<readers, writerPref, others, aborted, lastReg, registered>>

RegisterUnlock(t) ==
    /\ ~aborted
    /\ ~Idle(t)
    /\ Top(t).fn = "register"
    /\ Top(t).pc = "store"
    /\ slot' = [slot EXCEPT ![Top(t).kind] = StoreHalf(@, Top(t).arg, 2)]
    /\ writer' = [writer EXCEPT ![Top(t).kind] = NoThread]
    /\ lastReg' = [lastReg EXCEPT ![Top(t).kind] = Top(t).arg]
    /\ stack' = Pop(t)
    /\ UNCHANGED <<readers, writerPref, others, aborted, registered>>

(***************************************************************************)
(* dispatch_event:                                                         *)
(*     if let Some(callback) = *EVENT_CALLBACK.read().unwrap() {           *)
(*         match (CString::new(event_type), CString::new(payload)) { .. }  *)
(*     }                                                                   *)
(* The read guard is a temporary of the if-let scrutinee: it lives to the  *)
(* end of the if-let statement, the callback's invocation included.  With  *)
(* an empty slot, or strings that do not encode, nothing is called and the *)
(* guard is dropped at once: taking and dropping it is then one step.      *)
(***************************************************************************)
EventSlotEmpty(t) ==
    /\ ~aborted
    /\ At(t, "dispatch", "event", "read_wait")
    /\ ReadLockFree("event")
    /\ slot["event"] = None
    /\ stack' = SetTop(t, [Top(t) EXCEPT !.pc = "ret", !.cb = slot["event"]])
    /\ UNCHANGED <<slot, writer, readers, writerPref, others, aborted, lastReg, registered>>

EventEncodeFailed(t) ==
    /\ ~aborted
    /\ At(t, "dispatch", "event", "read_wait")
    /\ ReadLockFree("event")
    /\ slot["event"] # None
    /\ ~Top(t).enc
    /\ stack' = SetTop(t, [Top(t) EXCEPT !.pc = "ret", !.cb = slot["event"]])
    /\ UNCHANGED <<slot, writer, readers, writerPref, others, aborted, lastReg, registered>>

EventInvoke(t) ==
    /\ ~aborted
    /\ At(t, "dispatch", "event", "read_wait")
    /\ ReadLockFree("event")
    /\ slot["event"] # None
    /\ Top(t).enc
    /\ readers' = [readers EXCEPT !["event"][t] = @ + 1]
    /\ stack' = SetTop(t, [Top(t) EXCEPT !.pc = "in_callback", !.cb = slot["event"],
                                         !.calls = @ + 1])
    /\ UNCHANGED <<slot, writer, writerPref, others, aborted, lastReg, registered>>

EventCallbackReturn(t) ==
    /\ ~aborted
    /\ At(t, "dispatch", "event", "in_callback")
    /\ readers' = [readers EXCEPT !["event"][t] = @ - 1]
    /\ stack' = SetTop(t, [Top(t) EXCEPT !.pc = "ret"])
    /\ UNCHANGED <<slot, writer, writerPref, others, aborted, lastReg, registered>>

(***************************************************************************)
(* notify_video_frame:                                                     *)
(*     let callback_opt = { let guard = VIDEO_FRAME_CALLBACK.read()        *)
(*                              .unwrap(); *guard };                       *)
(*     let Some(callback) = callback_opt else { return; };                 *)
(*     let c_peer_id = match CString::new(peer_id) { .. return .. };       *)
(*     callback(..)                                                        *)
(* The guard is dropped at the end of the block, before anything else:     *)
(* taking it, copying the slot and dropping it are one step.               *)
(***************************************************************************)
VideoSlotEmpty(t) ==
    /\ ~aborted
    /\ At(t, "dispatch", "video", "read_wait")
    /\ ReadLockFree("video")
    /\ slot["video"] = None
    /\ stack' = SetTop(t, [Top(t) EXCEPT !.pc = "ret", !.cb = slot["video"]])
    /\ UNCHANGED <<slot, writer, readers, writerPref, others, aborted, lastReg, registered>>

VideoEncodeFailed_StillCalls(t) ==
    /\ ~aborted
    /\ At(t, "dispatch", "video", "read_wait")
    /\ ReadLockFree("video")
    /\ slot["video"] # None
    /\ ~Top(t).enc
    /\ stack' = SetTop(t, [Top(t) EXCEPT !.pc = "in_callback", !.cb = slot["video"],
                                         !.calls = @ + 1])
    /\ UNCHANGED <<slot, writer, readers, writerPref, others, aborted, lastReg, registered>>

VideoEncodeFailed(t) ==
    /\ ~aborted
    /\ At(t, "dispatch", "video", "read_wait")
    /\ ReadLockFree("video")
    /\ slot["video"] # None
    /\ ~Top(t).enc
    /\ stack' = SetTop(t, [Top(t) EXCEPT !.pc = "ret", !.cb = slot["video"]])
    /\ UNCHANGED <<slot, writer, readers, writerPref, others, aborted, lastReg, registered>>

VideoRead_Unlocked(t) ==
    /\ ~aborted
    /\ At(t, "dispatch", "video", "read_wait")
    /\ slot["video"] # None
    /\ Top(t).enc
    /\ stack' = SetTop(t, [Top(t) EXCEPT !.pc = "copied", !.cb = slot["video"]])
    /\ UNCHANGED <<slot, writer, readers, writerPref, others, aborted, lastReg, registered>>

VideoRead(t) ==
    /\ ~aborted
    /\ At(t, "dispatch", "video", "read_wait")
    /\ ReadLockFree("video")
    /\ slot["video"] # None
    /\ Top(t).enc
    /\ stack' = SetTop(t, [Top(t) EXCEPT !.pc = "copied", !.cb = slot["video"]])
    /\ UNCHANGED <<slot, writer, readers, writerPref, others, aborted, lastReg, registered>>

VideoInvoke(t) ==
    /\ ~aborted
    /\ At(t, "dispatch", "video", "copied")
    /\ stack' = SetTop(t, [Top(t) EXCEPT !.pc = "in_callback", !.calls = @ + 1])
    /\ UNCHANGED <<slot, writer, readers, writerPref, others, aborted, lastReg, registered>>

VideoCallbackReturn(t) ==
    /\ ~aborted
    /\ At(t, "dispatch", "video", "in_callback")
    /\ stack' = SetTop(t, [Top(t) EXCEPT !.pc = "ret"])
    /\ UNCHANGED <<slot, writer, readers, writerPref, others, aborted, lastReg, registered>>

\* dispatch_event / notify_video_frame return to their caller
DispatchReturn(t) ==
    /\ ~aborted
    /\ ~Idle(t)
    /\ Top(t).fn = "dispatch"
    /\ Top(t).pc = "ret"
    /\ stack' = Pop(t)
    /\ UNCHANGED <<slot, writer, readers, writerPref, others, aborted, lastReg, registered>>

(***************************************************************************)
(* RwLock::read and RwLock::write "might panic when called if the lock is  *)
(* already held by the current thread"; otherwise such a call may wait for *)
(* ever.  Both outcomes are possible: the call either stays where it is or *)
(* panics, and a panic that unwinds into an extern "C" frame aborts.       *)
(***************************************************************************)
LockPanic(t) ==
    /\ ~aborted
    /\ ~Idle(t)
    /\ Top(t).pc \in {"write_wait", "read_wait"}
    /\ HoldsGuard(t, Top(t).kind)
    /\ aborted' = TRUE
    /\ UNCHANGED <<slot, writer, readers, stack, writerPref, others, lastReg, registered>>

(***************************************************************************)
(* The threads.                                                            *)
(***************************************************************************)
RegInit ==
    /\ slot = [k \in Kinds |-> None]
    /\ writer = [k \in Kinds |-> NoThread]
    /\ readers = [k \in Kinds |-> [t \in Threads |-> 0]]
    /\ stack = [t \in Threads |-> <<>>]
    /\ aborted = FALSE
    /\ lastReg = [k \in Kinds |-> None]
    /\ registered = [k \in Kinds |-> {None}]

Calls(t) ==
    \/ \E k \in scope, cb \in CallbackArgs : CallRegister(t, k, cb)
    \/ \E k \in scope, enc \in BOOLEAN : CallDispatch(t, k, enc)

Reenter(t) ==
    \/ \E cb \in CallbackArgs : HostRegister(t, cb)
    \/ \E enc \in BOOLEAN : HostDispatch(t, enc)

Progress(t) ==
    \/ RegisterLock(t)
    \/ RegisterUnlock(t)
    \/ EventSlotEmpty(t)
    \/ EventEncodeFailed(t)
    \/ EventInvoke(t)
    \/ EventCallbackReturn(t)
    \/ VideoSlotEmpty(t)
    \/ VideoEncodeFailed(t)
    \/ VideoRead(t)
    \/ VideoInvoke(t)
    \/ VideoCallbackReturn(t)
    \/ DispatchReturn(t)

(***************************************************************************)
(* Spec: two threads, host callbacks that may call back into the bridge.   *)
(* The two slots are separate statics behind separate locks and no function*)
(* touches both, so a run follows the threads through one slot, either one.*)
(***************************************************************************)
Init ==
    /\ RegInit
    /\ writerPref \in BOOLEAN
    /\ scope \in {{k} : k \in Kinds}
    /\ vf = NoFrame
    /\ px = NoProxyCall
    /\ ev = NoEvent
    /\ infos = NoInfos
    /\ gp = NoListing

Next == \E t \in Threads : Calls(t) \/ Progress(t) \/ Reenter(t) \/ LockPanic(t)

Spec == Init /\ [][Next]_vars

(***************************************************************************)
(* SpecReturning: two threads alternating register and dispatch on one     *)
(* slot, with host callbacks that return and do not re-enter the bridge.   *)
(* Every thread keeps being scheduled, and a thread waiting for a lock     *)
(* that is free again and again gets it in the end.                        *)
(***************************************************************************)
NextReturning == \E t \in Threads : Calls(t) \/ Progress(t)

SpecReturning ==
    /\ Init
    /\ [][NextReturning]_vars
    /\ \A t \in Threads : SF_vars(Progress(t))

(***************************************************************************)
(* SpecSeq: one thread making one call after the other, on both slots.     *)
(***************************************************************************)
InitSeq ==
    /\ RegInit
    /\ writerPref \in BOOLEAN
    /\ scope = Kinds
    /\ vf = NoFrame
    /\ px = NoProxyCall
    /\ ev = NoEvent
    /\ infos = NoInfos
    /\ gp = NoListing

MainThread == "host"

NextSeq == Calls(MainThread) \/ Progress(MainThread)

SpecSeq == InitSeq /\ [][NextSeq]_vars

(***************************************************************************)
(* notify_video_frame's arguments.  usize is the native word and u32 the   *)
(* callback's integer type.  TLC's integers are 32 bits wide, so both      *)
(* widths are scaled down, u32 staying the narrower: a usize holds         *)
(* 0 .. UsizeMax and a cast `as u32` keeps the value modulo U32Modulus.    *)
(***************************************************************************)
U32Bits == 16
UsizeBits == 24

U32Modulus == 2 ^ U32Bits
UsizeMax == 2 ^ UsizeBits - 1

AsU32(x) == x % U32Modulus

\* usize::saturating_mul
SaturatingMul(a, b) == IF a * b > UsizeMax THEN UsizeMax ELSE a * b

Max(a, b) == IF a > b THEN a ELSE b

\* CString::new: fails on an interior NUL, else appends the terminator
NUL == 0
HasNul(bytes) == \E i \in 1..Len(bytes) : bytes[i] = NUL

CStringNew_AcceptsNul(bytes) == [ok |-> TRUE, cstr |-> Append(bytes, NUL)]

CStringNew(bytes) ==
    IF HasNul(bytes)
    THEN [ok |-> FALSE, cstr |-> <<>>]
    ELSE [ok |-> TRUE, cstr |-> Append(bytes, NUL)]

\* image_format_to_u32
ImageFormats == {"Raw", "ABGR", "ARGB"}
ImageFormatToU32_ArgbAsAbgr(format) == IF format = "Raw" THEN 0 ELSE 1

ImageFormatToU32(format) ==
    CASE format = "Raw" -> 0
      [] format = "ABGR" -> 1
      [] format = "ARGB" -> 2

\* the stride notify_video_frame computes (lines 58-68), before it is cast
DerivedStride_HintWhenPresent(width, height, hint, len) ==
    LET fromBuffer == IF height > 0 THEN len \div height ELSE 0
        stride == IF fromBuffer = 0 THEN SaturatingMul(width, 4) ELSE fromBuffer
    IN  IF hint > 0 THEN hint ELSE stride

DerivedStride(width, height, hint, len) ==
    LET fromBuffer == IF height > 0 THEN len \div height ELSE 0
        stride == IF fromBuffer = 0 THEN SaturatingMul(width, 4) ELSE fromBuffer
    IN  IF hint > stride THEN hint ELSE stride

\* the values the calls of the model pass
PeerIds == {<<112, 49>>, <<112, NUL, 49>>}
Displays == {0, 1, U32Modulus + 1}
FrameWidths == {0, 50, 100, UsizeMax}
FrameHeights == {0, 1, 100}
StrideHints == {0, 500, U32Modulus, U32Modulus + 500}
BufferLens == {0, 1, 40000}

\* notify_video_frame(peer, vf.display, vf.width, ..), from call to return,
\* with no other thread running
NotifyVideoFrame(peer) ==
    LET callback_opt == slot["video"]
        call == [Frame0(vf.display, vf.width, vf.height, vf.hint, vf.format, vf.len)
                    EXCEPT !.called = TRUE, !.peer = peer, !.seen = callback_opt,
                           !.dropped_for = IF vf.called /\ vf.invoked = 0 /\ HasNul(vf.peer)
                                           THEN vf.seen ELSE None]
        c_peer_id == CStringNew(peer)
    IN  /\ vf' = IF callback_opt = None \/ ~c_peer_id.ok
                 THEN call
                 ELSE [call EXCEPT !.invoked = 1,
                                   !.cb = callback_opt,
                                   !.a_peer = c_peer_id.cstr,
                                   !.a_display = AsU32(vf.display),
                                   !.a_width = AsU32(vf.width),
                                   !.a_height = AsU32(vf.height),
                                   !.a_stride = AsU32(DerivedStride(vf.width, vf.height,
                                                                    vf.hint, vf.len)),
                                   !.a_format = ImageFormatToU32(vf.format),
                                   !.a_len = vf.len]
        /\ UNCHANGED <<regVars, px, ev, infos, gp>>

\* rustdesk_unity_register_video_frame_callback, from call to return
RegisterVideoFrameCallback_BothSlots(cb) ==
    /\ slot' = [k \in Kinds |-> cb]
    /\ lastReg' = [lastReg EXCEPT !["video"] = cb]
    /\ registered' = [registered EXCEPT !["video"] = @ \cup {cb}]
    /\ UNCHANGED <<writer, readers, stack, writerPref, scope, aborted, vf, px, ev, infos, gp>>

RegisterVideoFrameCallback(cb) ==
    /\ slot' = [slot EXCEPT !["video"] = StoreHalf(StoreHalf(@, cb, 1), cb, 2)]
    /\ lastReg' = [lastReg EXCEPT !["video"] = cb]
    /\ registered' = [registered EXCEPT !["video"] = @ \cup {cb}]
    /\ UNCHANGED <<writer, readers, stack, writerPref, scope, aborted, vf, px, ev, infos, gp>>

(***************************************************************************)
(* SpecFrame: one thread registering video callbacks and passing a frame,  *)
(* drawn at the start, to notify_video_frame under one peer id or another. *)
(***************************************************************************)
InitFrame ==
    /\ RegInit
    /\ writerPref \in BOOLEAN
    /\ scope = {"video"}
    /\ \E display \in Displays, width \in FrameWidths, height \in FrameHeights,
          hint \in StrideHints, format \in ImageFormats, len \in BufferLens :
            vf = Frame0(display, width, height, hint, format, len)
    /\ px = NoProxyCall
    /\ ev = NoEvent
    /\ infos = NoInfos
    /\ gp = NoListing

NextFrame ==
    \/ \E cb \in CallbackArgs : RegisterVideoFrameCallback(cb)
    \/ \E peer \in PeerIds : NotifyVideoFrame(peer)

SpecFrame == InitFrame /\ [][NextFrame]_vars

(***************************************************************************)
(* The plugin notifications (plugin/unity.rs, lines 30-48 and 173-187).    *)
(* The four tags are constants of the parent module, outside the two       *)
(* files: they are the tags the bridge's specification names, as bytes.    *)
(***************************************************************************)
MSG_TO_UI_TYPE_PLUGIN_MANAGER == <<109, 97, 110, 97, 103, 101, 114>>
MSG_TO_UI_TYPE_PLUGIN_RELOAD == <<114, 101, 108, 111, 97, 100>>
MSG_TO_UI_TYPE_PLUGIN_OPTION == <<111, 112, 116, 105, 111, 110>>
MSG_TO_UI_TYPE_PLUGIN_EVENT == <<103, 101, 110, 101, 114, 105, 99, 45, 101, 118, 101, 110, 116>>

\* match (CString::new(event_type), CString::new(payload)), lines 32-46
EventEncoded_TypeOnly(event_type, payload) ==
    LET t == CStringNew(event_type)
    IN  [ok |-> t.ok, event_type |-> t.cstr, payload |-> Append(payload, NUL)]

EventEncoded(event_type, payload) ==
    LET t == CStringNew(event_type)
        p == CStringNew(payload)
    IN  [ok |-> t.ok /\ p.ok, event_type |-> t.cstr, payload |-> p.cstr]

\* dispatch_event(event_type, payload), from call to return, with no other
\* thread running and a host callback that returns without calling back:
\* the read guard is taken, the callback runs under it, the guard is dropped
DispatchEvent(entry, event_type, payload) ==
    LET callback_opt == slot["event"]
        call == [EventCall(entry, event_type, payload)
                    EXCEPT !.seen = callback_opt,
                           !.dropped_for = IF ev.called /\ ev.invoked = 0
                                           THEN ev.seen ELSE None]
        c == EventEncoded(event_type, payload)
    IN  /\ ev' = IF callback_opt = None \/ ~c.ok
                 THEN call
                 ELSE [call EXCEPT !.invoked = 1,
                                   !.cb = callback_opt,
                                   !.a_type = c.event_type,
                                   !.a_payload = c.payload]
        /\ UNCHANGED <<regVars, vf, px, infos, gp>>

NotifyManagerEvent(payload) ==
    DispatchEvent("notify_manager_event", MSG_TO_UI_TYPE_PLUGIN_MANAGER, payload)

NotifyReloadEvent(payload) ==
    DispatchEvent("notify_reload_event", MSG_TO_UI_TYPE_PLUGIN_RELOAD, payload)

NotifyOptionEvent(payload) ==
    DispatchEvent("notify_option_event", MSG_TO_UI_TYPE_PLUGIN_OPTION, payload)

NotifyPluginEvent(payload) ==
    DispatchEvent("notify_plugin_event", MSG_TO_UI_TYPE_PLUGIN_EVENT, payload)

\* rustdesk_unity_register_event_callback, from call to return
RegisterEventCallback(cb) ==
    /\ slot' = [slot EXCEPT !["event"] = StoreHalf(StoreHalf(@, cb, 1), cb, 2)]
    /\ lastReg' = [lastReg EXCEPT !["event"] = cb]
    /\ registered' = [registered EXCEPT !["event"] = @ \cup {cb}]
    /\ UNCHANGED <<writer, readers, stack, writerPref, scope, aborted, vf, px, ev, infos, gp>>

\* the payloads the collaborators pass: "{}", "{" NUL "}" and the empty string
Payloads == {<<123, 125>>, <<123, NUL, 125>>, <<>>}

(***************************************************************************)
(* SpecNotify: one thread registering event callbacks and the plugin       *)
(* manager notifying through the four channels, one call after the other.  *)
(***************************************************************************)
InitNotify ==
    /\ RegInit
    /\ writerPref \in BOOLEAN
    /\ scope = {"event"}
    /\ vf = NoFrame
    /\ px = NoProxyCall
    /\ ev = NoEvent
    /\ infos = NoInfos
    /\ gp = NoListing

NextNotify ==
    \/ \E cb \in CallbackArgs : RegisterEventCallback(cb)
    \/ \E payload \in Payloads : NotifyManagerEvent(payload)
    \/ \E payload \in Payloads : NotifyReloadEvent(payload)
    \/ \E payload \in Payloads : NotifyOptionEvent(payload)
    \/ \E payload \in Payloads : NotifyPluginEvent(payload)

SpecNotify == InitNotify /\ [][NextNotify]_vars

(***************************************************************************)
(* The exported plugin entry points (plugin/unity.rs, lines 62-145).  The  *)
(* parent module's helpers they use are outside the two files: errno's     *)
(* codes, PluginReturn, cstr_to_string and the plugin manager itself       *)
(* follow the bridge's specification.                                      *)
(***************************************************************************)
\* errno: success is 0, the two error codes are nonzero and distinct
ERR_SUCCESS == 0
ERR_CALLBACK_INVALID_ARGS == 20002
ERR_CALLBACK_FAILED == 21001

\* PluginReturn::success and PluginReturn::new
PluginReturnSuccess == [code |-> ERR_SUCCESS, msg |-> ""]
PluginReturnNew(code, msg) == [code |-> code, msg |-> msg]

\* UTF-8 decoding of the one- and two-byte sequences the model's strings are
\* made of; any other byte is an error
RECURSIVE Utf8Decode(_)
Utf8Decode(bytes) ==
    IF bytes = <<>> THEN [ok |-> TRUE, val |-> <<>>]
    ELSE IF bytes[1] < 128
    THEN LET rest == Utf8Decode(Tail(bytes))
         IN  [ok |-> rest.ok, val |-> IF rest.ok THEN <<bytes[1]>> \o rest.val ELSE <<>>]
    ELSE IF bytes[1] \in 194..223 /\ Len(bytes) >= 2 /\ bytes[2] \in 128..191
    THEN LET rest == Utf8Decode(SubSeq(bytes, 3, Len(bytes)))
             point == (bytes[1] - 192) * 64 + (bytes[2] - 128)
         IN  [ok |-> rest.ok, val |-> IF rest.ok THEN <<point>> \o rest.val ELSE <<>>]
    ELSE [ok |-> FALSE, val |-> <<>>]

\* cstr_to_string: the owned string a host pointer decodes to, or an error
CstrToString(ptr) ==
    IF ptr.null
    THEN [ok |-> FALSE, val |-> <<>>, err |-> "null pointer"]
    ELSE LET d == Utf8Decode(ptr.bytes)
         IN  IF d.ok
             THEN [ok |-> TRUE, val |-> d.val, err |-> ""]
             ELSE [ok |-> FALSE, val |-> <<>>, err |-> "invalid utf-8 sequence"]

\* what the plugin manager answers: Ok(()) or Err(text)
CollabOk == [ok |-> TRUE, err |-> ""]
CollabErr(text) == [ok |-> FALSE, err |-> text]
CollabResults == {CollabOk, CollabErr("not found"), CollabErr("")}

\* a call of the plugin manager: the operation, its arguments, its answer
CollabCall(op, id, peer, bytes, res) ==
    [op |-> op, id |-> id, peer |-> peer, bytes |-> bytes, res |-> res]

\* make_error (lines 19-21)
MakeError_DropsMessage(code, msg) == PluginReturnNew(code, "")

MakeError(code, msg) == PluginReturnNew(code, msg)

\* dispatch_from_result (lines 23-28)
DispatchFromResult_AlwaysSuccess(result, context) == PluginReturnSuccess

DispatchFromResult(result, context) ==
    IF result.ok
    THEN PluginReturnSuccess
    ELSE MakeError(ERR_CALLBACK_FAILED, context \o ": " \o result.err)

\* get_id_and_peer (lines 50-54): the id first, then the peer
GetIdAndPeer_PeerUnchecked(id, peer) ==
    LET i == CstrToString(id)
        p == CstrToString(peer)
    IN  IF ~i.ok THEN [ok |-> FALSE, id |-> <<>>, peer |-> <<>>, err |-> i.err]
        ELSE [ok |-> TRUE, id |-> i.val, peer |-> p.val, err |-> ""]

GetIdAndPeer(id, peer) ==
    LET i == CstrToString(id)
        p == CstrToString(peer)
    IN  IF ~i.ok THEN [ok |-> FALSE, id |-> <<>>, peer |-> <<>>, err |-> i.err]
        ELSE IF ~p.ok THEN [ok |-> FALSE, id |-> <<>>, peer |-> <<>>, err |-> p.err]
        ELSE [ok |-> TRUE, id |-> i.val, peer |-> p.val, err |-> ""]

\* rustdesk_unity_load_plugin, rustdesk_unity_unload_plugin and
\* rustdesk_unity_reload_plugin (lines 68-99) are one pattern: op is the
\* manager's operation, context the tag of its errors, res its answer
LifecycleProxy_DelegatesAnyway(entry, op, context, id, res) ==
    LET d == CstrToString(id)
    IN  px' = ProxyCall(entry, id, NullPtr, <<>>, 0,
                        <<CollabCall(op, d.val, <<>>, <<>>, res)>>,
                        IF d.ok
                        THEN DispatchFromResult(res, context)
                        ELSE MakeError(ERR_CALLBACK_INVALID_ARGS,
                                       "Invalid plugin id: " \o d.err))

LifecycleProxy(entry, op, context, id, res) ==
    LET d == CstrToString(id)
    IN  px' = IF d.ok
              THEN ProxyCall(entry, id, NullPtr, <<>>, 0,
                             <<CollabCall(op, d.val, <<>>, <<>>, res)>>,
                             DispatchFromResult(res, context))
              ELSE ProxyCall(entry, id, NullPtr, <<>>, 0, <<>>,
                             MakeError(ERR_CALLBACK_INVALID_ARGS,
                                       "Invalid plugin id: " \o d.err))

LoadPlugin(id, res) ==
    /\ LifecycleProxy("load_plugin", "load_plugin", "Load plugin", id, res)
    /\ UNCHANGED <<regVars, vf, ev, infos, gp>>

UnloadPlugin(id, res) ==
    /\ LifecycleProxy("unload_plugin", "unload_plugin", "Unload plugin", id, res)
    /\ UNCHANGED <<regVars, vf, ev, infos, gp>>

ReloadPlugin(id, res) ==
    /\ LifecycleProxy("reload_plugin", "reload_plugin", "Reload plugin", id, res)
    /\ UNCHANGED <<regVars, vf, ev, infos, gp>>

\* rustdesk_unity_handle_ui_event and rustdesk_unity_handle_server_event
\* (lines 101-145): event and len are the host's buffer, of which the
\* manager's handler borrows the first len bytes
EventProxy(entry, op, context, id, peer, event, len, res) ==
    LET v == GetIdAndPeer(id, peer)
        event_slice == SubSeq(event, 1, len)
    IN  px' = IF ~v.ok
              THEN ProxyCall(entry, id, peer, event, len, <<>>,
                             MakeError(ERR_CALLBACK_INVALID_ARGS,
                                       "Invalid plugin arguments: " \o v.err))
              ELSE ProxyCall(entry, id, peer, event, len,
                             <<CollabCall(op, v.id, v.peer, event_slice, res)>>,
                             DispatchFromResult(res, context))

HandleUiEvent(id, peer, event, len, res) ==
    /\ EventProxy("handle_ui_event", "handle_ui_event", "Handle UI event",
                  id, peer, event, len, res)
    /\ UNCHANGED <<regVars, vf, ev, infos, gp>>

HandleServerEvent(id, peer, event, len, res) ==
    /\ EventProxy("handle_server_event", "handle_server_event", "Handle server event",
                  id, peer, event, len, res)
    /\ UNCHANGED <<regVars, vf, ev, infos, gp>>

\* rustdesk_unity_init_plugin_framework (lines 62-66)
InitPluginFramework ==
    /\ px' = ProxyCall("init_plugin_framework", NullPtr, NullPtr, <<>>, 0,
                       <<CollabCall("init", <<>>, <<>>, <<>>, CollabOk)>>,
                       PluginReturnSuccess)
    /\ UNCHANGED <<regVars, vf, ev, infos, gp>>

\* the pointers and buffers the host passes
IdPtrs == {NullPtr, Ptr(<<255>>), Ptr(<<97>>), Ptr(<<112, 195, 169>>)}
PeerPtrs == {NullPtr, Ptr(<<112, 128>>), Ptr(<<112, 49>>)}
EventBuffers == {<<>>, <<1, 2>>}

(***************************************************************************)
(* SpecProxy: the host calling the exported plugin entry points, one call  *)
(* after the other.                                                        *)
(***************************************************************************)
InitProxy ==
    /\ RegInit
    /\ writerPref \in BOOLEAN
    /\ scope = Kinds
    /\ vf = NoFrame
    /\ px = NoProxyCall
    /\ ev = NoEvent
    /\ infos = NoInfos
    /\ gp = NoListing

NextProxy ==
    \/ InitPluginFramework
    \/ \E id \in IdPtrs, res \in CollabResults : LoadPlugin(id, res)
    \/ \E id \in IdPtrs, res \in CollabResults : UnloadPlugin(id, res)
    \/ \E id \in IdPtrs, res \in CollabResults : ReloadPlugin(id, res)
    \/ \E id \in IdPtrs, peer \in PeerPtrs, event \in EventBuffers, res \in CollabResults :
          \E len \in 0..Len(event) : HandleUiEvent(id, peer, event, len, res)
    \/ \E id \in IdPtrs, peer \in PeerPtrs, event \in EventBuffers, res \in CollabResults :
          \E len \in 0..Len(event) : HandleServerEvent(id, peer, event, len, res)

SpecProxy == InitProxy /\ [][NextProxy]_vars

(***************************************************************************)
(* rustdesk_unity_get_plugins and rustdesk_unity_free (plugin/unity.rs,    *)
(* lines 147-171).  The descriptor table, PluginInfo, str_to_cstr_ret and  *)
(* free_c_ptr belong to the parent module, outside the two files, and      *)
(* follow the bridge's specification: a PluginInfo has a description, a    *)
(* path and an uninstalled flag, and the table maps plugin ids to them.    *)
(* Strings and JSON text are sequences of bytes.                           *)
(***************************************************************************)
PluginInfo(desc, path, uninstalled) ==
    [desc |-> desc, path |-> path, uninstalled |-> uninstalled]

\* the manager installs or updates a plugin, or forgets one
ManagerPutsInfo(id, info) ==
    /\ infos' = [i \in DOMAIN infos \cup {id} |-> IF i = id THEN info ELSE infos[i]]
    /\ UNCHANGED <<regVars, vf, px, ev, gp>>

ManagerRemovesInfo(id) ==
    /\ id \in DOMAIN infos
    /\ infos' = [i \in DOMAIN infos \ {id} |-> infos[i]]
    /\ UNCHANGED <<regVars, vf, px, ev, gp>>

\* serde_json's string literal: quotes and backslashes are escaped
RECURSIVE JsonEscape(_)
JsonEscape(bytes) ==
    IF bytes = <<>> THEN <<>>
    ELSE (IF bytes[1] \in {34, 92} THEN <<92, bytes[1]>> ELSE <<bytes[1]>>)
            \o JsonEscape(Tail(bytes))

JsonString(bytes) == <<34>> \o JsonEscape(bytes) \o <<34>>

JsonBool(b) == IF b THEN <<116, 114, 117, 101>> ELSE <<102, 97, 108, 115, 101>>

\* json!({"desc": .., "path": .., "uninstalled": ..}), lines 154-158
JsonObject_PathForDesc(info) ==
    [desc |-> info.path, path |-> info.path, uninstalled |-> info.uninstalled]

JsonObject(info) ==
    [desc |-> info.desc, path |-> info.path, uninstalled |-> info.uninstalled]

\* serde_json::to_string of one object and of the Vec of them
ObjectToString(o) ==
    <<123>> \o JsonString(<<100, 101, 115, 99>>) \o <<58>> \o JsonString(o.desc)
      \o <<44>> \o JsonString(<<112, 97, 116, 104>>) \o <<58>> \o JsonString(o.path)
      \o <<44>> \o JsonString(<<117, 110, 105, 110, 115, 116, 97, 108, 108, 101, 100>>)
      \o <<58>> \o JsonBool(o.uninstalled) \o <<125>>

RECURSIVE ObjectsToString(_)
ObjectsToString(payload) ==
    IF payload = <<>> THEN <<>>
    ELSE IF Len(payload) = 1 THEN ObjectToString(payload[1])
    ELSE ObjectToString(payload[1]) \o <<44>> \o ObjectsToString(Tail(payload))

\* serde_json::to_string(&payload): a Vec of Values always serializes, the
\* unwrap_or_else of lines 161-164 is never taken
SerdeToString(payload) == <<91>> \o ObjectsToString(payload) \o <<93>>

\* str_to_cstr_ret: a host-owned copy of the text with its terminator
StrToCstrRet(text) == Append(text, NUL)

\* the orders in which HashMap::values() may visit the table
ValueOrders(table) ==
    {order \in [1..Cardinality(DOMAIN table) -> DOMAIN table] :
        \A id \in DOMAIN table : \E i \in DOMAIN order : order[i] = id}

\* rustdesk_unity_get_plugins, from call to return: the table is read under
\* its read lock, in the order the map yields its values
GetPlugins(order) ==
    LET payload == [i \in DOMAIN order |-> JsonObject(infos[order[i]])]
        json == SerdeToString(payload)
    IN  /\ gp' = Listing(infos, payload, StrToCstrRet(json))
        /\ UNCHANGED <<regVars, vf, px, ev, infos>>

\* rustdesk_unity_free(ptr): null is a no-op; the host passes the pointer
\* rustdesk_unity_get_plugins returned once
Free(isNull) ==
    /\ isNull \/ gp.live
    /\ gp' = IF isNull THEN gp ELSE [gp EXCEPT !.live = FALSE]
    /\ UNCHANGED <<regVars, vf, px, ev, infos>>

\* the plugins, descriptions and paths of the model: "d" and a double quote,
\* "/p" and a backslash
PluginIds == {"a", "b"}
Descs == {<<100>>, <<34>>}
Paths == {<<47, 112>>, <<92>>}
PluginInfos ==
    {PluginInfo(desc, path, u) : desc \in Descs, path \in Paths, u \in BOOLEAN}

(***************************************************************************)
(* SpecPlugins: the plugin manager changing its table and the host asking  *)
(* for the listing and releasing it, one call after the other.             *)
(***************************************************************************)
InitPlugins ==
    /\ RegInit
    /\ writerPref \in BOOLEAN
    /\ scope = Kinds
    /\ vf = NoFrame
    /\ px = NoProxyCall
    /\ ev = NoEvent
    /\ infos = NoInfos
    /\ gp = NoListing

NextPlugins ==
    \/ \E id \in PluginIds, info \in PluginInfos : ManagerPutsInfo(id, info)
    \/ \E id \in PluginIds : ManagerRemovesInfo(id)
    \/ \E order \in ValueOrders(infos) : GetPlugins(order)
    \/ \E isNull \in BOOLEAN : Free(isNull)

SpecPlugins == InitPlugins /\ [][NextPlugins]_vars

(***************************************************************************)
(* SpecBridge: the whole surface of the bridge, one call after the other.  *)
(* Both registrations can be called at any time.  The other calls fall in  *)
(* four groups that share no state but the two slots: the video frames,    *)
(* the plugin notifications, the plugin proxies, and the plugin listing    *)
(* with its release.  A run follows both registrations and one group.      *)
(***************************************************************************)
FrameRun == ~px.called /\ ~ev.called /\ ~gp.called /\ infos = NoInfos
NotifyRun == ~vf.called /\ ~px.called /\ ~gp.called /\ infos = NoInfos
ProxyRun == ~vf.called /\ ~ev.called /\ ~gp.called /\ infos = NoInfos
PluginsRun == ~vf.called /\ ~ev.called /\ ~px.called

InitBridge ==
    /\ RegInit
    /\ writerPref \in BOOLEAN
    /\ scope = Kinds
    /\ vf = NoFrame
    /\ px = NoProxyCall
    /\ ev = NoEvent
    /\ infos = NoInfos
    /\ gp = NoListing

\* the arguments of the calls of a SpecBridge run
BridgePayloads == {<<123, 125>>, <<123, NUL, 125>>}
BridgeIdPtrs == {NullPtr, Ptr(<<97>>)}
BridgePeerPtrs == {Ptr(<<112, 49>>)}
BridgeResults == {CollabOk, CollabErr("not found")}
BridgeInfos == {PluginInfo(<<100>>, <<47, 112>>, FALSE)}

NextBridge ==
    \/ \E cb \in CallbackArgs : RegisterEventCallback(cb)
    \/ \E cb \in CallbackArgs : RegisterVideoFrameCallback(cb)
    \/ FrameRun /\ \E peer \in PeerIds : NotifyVideoFrame(peer)
    \/ NotifyRun /\ \E payload \in BridgePayloads : NotifyManagerEvent(payload)
    \/ NotifyRun /\ \E payload \in BridgePayloads : NotifyReloadEvent(payload)
    \/ NotifyRun /\ \E payload \in BridgePayloads : NotifyOptionEvent(payload)
    \/ NotifyRun /\ \E payload \in BridgePayloads : NotifyPluginEvent(payload)
    \/ ProxyRun /\ InitPluginFramework
    \/ ProxyRun /\ \E id \in BridgeIdPtrs, res \in BridgeResults : LoadPlugin(id, res)
    \/ ProxyRun /\ \E id \in BridgeIdPtrs, res \in BridgeResults : UnloadPlugin(id, res)
    \/ ProxyRun /\ \E id \in BridgeIdPtrs, res \in BridgeResults : ReloadPlugin(id, res)
    \/ ProxyRun /\ \E id \in BridgeIdPtrs, peer \in BridgePeerPtrs, res \in BridgeResults :
                        HandleUiEvent(id, peer, <<>>, 0, res)
    \/ ProxyRun /\ \E id \in BridgeIdPtrs, peer \in BridgePeerPtrs, res \in BridgeResults :
                        HandleServerEvent(id, peer, <<>>, 0, res)
    \/ PluginsRun /\ \E info \in BridgeInfos : ManagerPutsInfo("a", info)
    \/ PluginsRun /\ ManagerRemovesInfo("a")
    \/ PluginsRun /\ \E order \in ValueOrders(infos) : GetPlugins(order)
    \/ PluginsRun /\ \E isNull \in BOOLEAN : Free(isNull)

SpecBridge == InitBridge /\ [][NextBridge]_vars

(***************************************************************************)
(*                              The claims                                 *)
(***************************************************************************)
Frames(t) == {stack[t][i] : i \in 1..Depth(t)}

\* C1 (as claimed): while a host callback of either kind is executing, the
\* dispatching thread holds no read guard on that kind's slot, so that a
\* register call of another thread need not wait for the callback.
C1_NoGuardWhileCallbackRuns ==
    \A t \in Threads : \A f \in Frames(t) :
        (f.fn = "dispatch" /\ f.pc = "in_callback") => readers[f.kind][t] = 0

\* C2 (as claimed): a call the host callback makes back into the bridge
\* returns: whenever a thread is inside such a nested call, some call in
\* progress can take a step.
C2_ReentrantCallProceeds ==
    (\E t \in Threads : Depth(t) > 1) => \E u \in Threads : ENABLED Progress(u)

\* Every pointer a dispatch has invoked was passed, whole, to a register call
\* of its kind.
InvokedWasRegistered ==
    \A t \in Threads : \A f \in Frames(t) :
        (f.fn = "dispatch" /\ f.calls > 0) => f.cb \in registered[f.kind] \ {None}

\* While a call is in progress, some call in progress can take a step.
NoDeadlock ==
    (\E t \in Threads : ~Idle(t)) => \E u \in Threads : ENABLED Progress(u)

\* C3: with host callbacks that return and do not re-enter, under every
\* interleaving of two threads registering and dispatching one kind, a
\* dispatch only invokes pointers that were passed whole to a register call,
\* no state is a deadlock, and every call returns.
C3_NoTornPointerNoDeadlock ==
    /\ [](InvokedWasRegistered /\ NoDeadlock)
    /\ \A t \in Threads : (~Idle(t)) ~> Idle(t)

\* C3 witness: a dispatch is waiting to read a slot that a registration of
\* another thread has half written.
C3_Witness ==
    \E t, u \in Threads : \E k \in Kinds :
        /\ t # u
        /\ At(t, "register", k, "store")
        /\ slot[k][1] # slot[k][2]
        /\ At(u, "dispatch", k, "read_wait")

\* C4: in a sequential run, a dispatch invokes the callback passed to the
\* last register call of its kind and no other, and invokes nothing when
\* that call passed none (or none was ever registered); it invokes it at
\* most once, and exactly once when the strings of the dispatch encode.
C4_LastRegistrationWins ==
    \A t \in Threads : \A f \in Frames(t) :
        f.fn = "dispatch" =>
            /\ f.calls \in {0, 1}
            /\ (f.calls = 1 => f.cb = lastReg[f.kind] /\ f.cb # None)
            /\ (lastReg[f.kind] = None => f.calls = 0)
            /\ (f.pc = "ret" /\ lastReg[f.kind] # None /\ f.enc => f.calls = 1)

\* C4 witness: a second callback was registered after a first one, and a
\* dispatch is invoking the second.
C4_Witness ==
    \E t \in Threads : \E k \in Kinds :
        /\ At(t, "dispatch", k, "in_callback")
        /\ Top(t).cb = Fn(2)
        /\ Fn(1) \in registered[k]

\* C10 (as claimed): a notify_video_frame call that has run to its end has
\* invoked the callback exactly once if the slot it read held one, and not
\* at all if it held none.
C10_OncePerRegisteredCallback ==
    \A t \in Threads : \A f \in Frames(t) :
        (f.fn = "dispatch" /\ f.kind = "video" /\ f.pc = "ret") =>
            f.calls = (IF f.cb # None THEN 1 ELSE 0)

\* C10 (amended): a notify_video_frame call that has run to its end has
\* invoked the callback exactly once if the slot it read held one and the
\* peer id encoded as a C string, and not at all otherwise; no call invokes
\* more than once.
C10_OnceIfRegisteredAndEncodable ==
    \A t \in Threads : \A f \in Frames(t) :
        (f.fn = "dispatch" /\ f.kind = "video") =>
            /\ f.calls \in {0, 1}
            /\ (f.pc = "ret" => f.calls = (IF f.cb # None /\ f.enc THEN 1 ELSE 0))

\* C10 witness: a notify_video_frame call has ended after invoking the
\* callback it found registered.
C10_Witness ==
    \E t \in Threads :
        /\ At(t, "dispatch", "video", "ret")
        /\ Top(t).cb \in HostFns
        /\ Top(t).calls = 1

\* What notify_video_frame's specification derives as the stride, in
\* unbounded arithmetic.
SpecifiedStride(width, height, hint, len) ==
    LET candidate == IF height # 0 THEN len \div height ELSE 0
    IN  Max(IF candidate = 0 THEN width * 4 ELSE candidate, hint)

\* C8 (as claimed): the stride the callback receives is the specified
\* derivation, for all widths, heights, buffer lengths and stride hints.
C8_StrideIsSpecified ==
    vf.called /\ vf.invoked = 1 =>
        vf.a_stride = SpecifiedStride(vf.width, vf.height, vf.hint, vf.len)

\* C8 witness: the callback received a stride for one of the specification's
\* examples, height 100, length 40000, hint 500.
C8_Witness ==
    /\ vf.called /\ vf.invoked = 1
    /\ vf.height = 100 /\ vf.len = 40000 /\ vf.hint = 500
    /\ vf.a_stride = 500

StrideDerivable == vf.height > 0 /\ vf.len \div vf.height > 0

\* C9 (as claimed): whenever the stride can be derived from the buffer, the
\* stride the callback receives is at least width * 4.
C9_StrideCoversWidth ==
    vf.called /\ vf.invoked = 1 /\ StrideDerivable =>
        vf.a_stride >= vf.width * 4

\* C9 (amended): whenever the stride can be derived from the buffer, the
\* stride the callback receives is the larger of buffer_length / height and
\* the stride hint, narrowed to 32 bits, whatever the width; it is at least
\* width * 4 when one of the two is and the larger fits 32 bits.
C9_StrideIsBufferRowOrHint ==
    vf.called /\ vf.invoked = 1 /\ StrideDerivable =>
        LET larger == Max(vf.len \div vf.height, vf.hint)
        IN  /\ vf.a_stride = AsU32(larger)
            /\ (larger >= vf.width * 4 /\ larger < U32Modulus
                    => vf.a_stride >= vf.width * 4)

\* C9 witness: a frame whose buffer gives a row shorter than width * 4 was
\* delivered with that row size as its stride.
C9_Witness ==
    /\ vf.called /\ vf.invoked = 1 /\ StrideDerivable
    /\ vf.a_stride = vf.len \div vf.height
    /\ vf.a_stride < vf.width * 4
    /\ vf.hint > 0

\* C11: a peer id that does not encode as a C string aborts that frame's
\* dispatch only: the call invokes nothing, it leaves the slot as it found it
\* and no guard held, and the next notify_video_frame whose peer id encodes
\* is delivered, once, to the callback that is still registered.
C11_BadPeerIdDropsOneFrame ==
    /\ [](vf.called /\ HasNul(vf.peer) =>
            /\ vf.invoked = 0
            /\ writer["video"] = NoThread
            /\ \A t \in Threads : readers["video"][t] = 0)
    /\ [](vf.called /\ vf.dropped_for # None /\ vf.seen = vf.dropped_for
                /\ ~HasNul(vf.peer) =>
            /\ vf.invoked = 1
            /\ vf.cb = vf.dropped_for
            /\ vf.a_peer = Append(vf.peer, NUL))
    /\ [][\A peer \in PeerIds :
            NotifyVideoFrame(peer) => UNCHANGED <<slot, writer, readers>>]_vars

\* C11 witness: a frame was dropped for its peer id while a callback was
\* registered, and the frame after it was delivered to that callback.
C11_Witness ==
    /\ vf.called /\ vf.dropped_for \in HostFns
    /\ ~HasNul(vf.peer)
    /\ vf.invoked = 1 /\ vf.cb = vf.dropped_for

NotifyEntries ==
    {"notify_manager_event", "notify_reload_event", "notify_option_event",
     "notify_plugin_event"}

\* C12: a plugin notification through any of the four channels invokes
\* nothing when the slot is empty and nothing when its tag or its payload
\* does not encode as a C string; whatever its outcome it leaves the slot as
\* it found it and no guard held; and the next notification whose strings
\* encode, with the callback still registered, is delivered exactly once,
\* with the channel's tag and the payload, both terminated.
C12_NotificationsAreBestEffort ==
    /\ [](ev.called =>
            /\ ev.entry \in NotifyEntries
            /\ (ev.seen = None => ev.invoked = 0)
            /\ (HasNul(ev.tag) \/ HasNul(ev.payload) => ev.invoked = 0)
            /\ ev.invoked \in {0, 1}
            /\ writer["event"] = NoThread
            /\ \A t \in Threads : readers["event"][t] = 0
            /\ ~aborted)
    /\ [](ev.called /\ ev.seen # None /\ ~HasNul(ev.tag) /\ ~HasNul(ev.payload) =>
            /\ ev.invoked = 1
            /\ ev.cb = ev.seen
            /\ ev.a_type = Append(ev.tag, NUL)
            /\ ev.a_payload = Append(ev.payload, NUL))
    /\ [][\A payload \in Payloads :
            (\/ NotifyManagerEvent(payload) \/ NotifyReloadEvent(payload)
             \/ NotifyOptionEvent(payload) \/ NotifyPluginEvent(payload))
                => UNCHANGED <<slot, writer, readers, aborted>>]_vars

\* C12 witness: a notification was dropped for its payload while a callback
\* was registered, and the notification after it was delivered to that
\* callback.
C12_Witness ==
    /\ ev.called /\ ev.dropped_for \in HostFns
    /\ ev.seen = ev.dropped_for
    /\ ~HasNul(ev.payload)
    /\ ev.invoked = 1 /\ ev.cb = ev.dropped_for

LifecycleEntries == {"load_plugin", "unload_plugin", "reload_plugin"}
EventEntries == {"handle_ui_event", "handle_server_event"}

\* C5: a lifecycle entry point called with an id pointer that decodes calls
\* the manager's operation of the same name exactly once, with the decoded
\* id, returns code 0 exactly when the manager succeeds, and returns an
\* empty message exactly when the code is 0.
C5_LifecycleRelaysOutcome ==
    px.called /\ px.entry \in LifecycleEntries /\ CstrToString(px.id).ok =>
        /\ Len(px.calls) = 1
        /\ px.calls[1].op = px.entry
        /\ px.calls[1].id = CstrToString(px.id).val
        /\ (px.ret.code = 0 <=> px.calls[1].res.ok)
        /\ (px.ret.msg = "" <=> px.ret.code = 0)

\* C5 witness: a lifecycle call with a decodable id whose operation the
\* manager failed, with an empty error text.
C5_Witness ==
    /\ px.called /\ px.entry \in LifecycleEntries /\ CstrToString(px.id).ok
    /\ Len(px.calls) = 1
    /\ px.calls[1].res = CollabErr("")
    /\ px.ret.code = ERR_CALLBACK_FAILED

\* C6: a lifecycle entry point called with a null pointer or with bytes
\* that are not valid text returns INVALID_ARGS and calls no operation of
\* the manager.
C6_BadIdNeverDelegated ==
    px.called /\ px.entry \in LifecycleEntries /\ ~CstrToString(px.id).ok =>
        /\ px.ret.code = ERR_CALLBACK_INVALID_ARGS
        /\ px.calls = <<>>

\* C6 witness: a lifecycle call with bytes that are not valid text has
\* returned INVALID_ARGS.
C6_Witness ==
    /\ px.called /\ px.entry = "reload_plugin"
    /\ ~px.id.null /\ ~CstrToString(px.id).ok
    /\ px.ret.code = ERR_CALLBACK_INVALID_ARGS

\* C7: an event entry point decodes the id and the peer before it
\* delegates: if either does not decode it returns INVALID_ARGS and calls no
\* handler; if both decode it calls the handler exactly once with the
\* decoded id, the decoded peer and the first len bytes of the buffer, and
\* returns 0 if the handler succeeds, CALLBACK_FAILED if not.
C7_EventDecodesBeforeDelegating ==
    px.called /\ px.entry \in EventEntries =>
        LET i == CstrToString(px.id)
            p == CstrToString(px.peer)
        IN  IF i.ok /\ p.ok
            THEN /\ Len(px.calls) = 1
                 /\ px.calls[1].op = px.entry
                 /\ px.calls[1].id = i.val
                 /\ px.calls[1].peer = p.val
                 /\ px.calls[1].bytes = SubSeq(px.event, 1, px.len)
                 /\ px.ret.code = (IF px.calls[1].res.ok THEN 0 ELSE ERR_CALLBACK_FAILED)
            ELSE /\ px.calls = <<>>
                 /\ px.ret.code = ERR_CALLBACK_INVALID_ARGS

\* C7 witness: an event call whose id decodes and whose peer does not has
\* returned INVALID_ARGS without a handler call.
C7_Witness ==
    /\ px.called /\ px.entry \in EventEntries
    /\ CstrToString(px.id).ok /\ ~CstrToString(px.peer).ok
    /\ px.ret.code = ERR_CALLBACK_INVALID_ARGS
    /\ px.calls = <<>>

\* the operation tag of an entry point's errors, as the claim lists them
OperationTag(entry) ==
    CASE entry = "load_plugin" -> "Load plugin"
      [] entry = "unload_plugin" -> "Unload plugin"
      [] entry = "reload_plugin" -> "Reload plugin"
      [] entry = "handle_ui_event" -> "Handle UI event"
      [] entry = "handle_server_event" -> "Handle server event"
      [] OTHER -> ""

\* the pointer arguments an entry point decodes, in the order it decodes them
DecodedPointers(call) ==
    IF call.entry \in LifecycleEntries THEN <<call.id>>
    ELSE IF call.entry \in EventEntries THEN <<call.id, call.peer>>
    ELSE <<>>

\* the failure of the first pointer of an entry point that does not decode
DecodeFailure(call) ==
    LET ptrs == DecodedPointers(call)
        bad == {i \in 1..Len(ptrs) : ~CstrToString(ptrs[i]).ok}
    IN  IF bad = {} THEN [failed |-> FALSE, err |-> ""]
        ELSE [failed |-> TRUE,
              err |-> CstrToString(ptrs[CHOOSE i \in bad : \A j \in bad : i <= j]).err]

\* C13: every result an exported entry point returns has code 0,
\* CALLBACK_FAILED or INVALID_ARGS; its message is empty exactly when the
\* code is 0; a CALLBACK_FAILED result follows a failed manager call and its
\* message is the operation tag, ": " and the manager's error text; an
\* INVALID_ARGS result is returned exactly when a pointer does not decode,
\* and its message ends with the decode failure.
C13_ResultsAreWellFormed ==
    px.called =>
        LET d == DecodeFailure(px)
        IN  /\ px.ret.code \in {ERR_SUCCESS, ERR_CALLBACK_FAILED, ERR_CALLBACK_INVALID_ARGS}
            /\ (px.ret.code = 0 <=> px.ret.msg = "")
            /\ (px.ret.code = ERR_CALLBACK_FAILED =>
                    /\ Len(px.calls) = 1
                    /\ ~px.calls[1].res.ok
                    /\ px.ret.msg = OperationTag(px.entry) \o ": " \o px.calls[1].res.err)
            /\ (px.ret.code = ERR_CALLBACK_INVALID_ARGS <=> d.failed)
            /\ (px.ret.code = ERR_CALLBACK_INVALID_ARGS =>
                    /\ d.err # ""
                    /\ px.ret.msg \in {"Invalid plugin id: " \o d.err,
                                       "Invalid plugin arguments: " \o d.err})

\* C13 witness: handle_server_event has returned CALLBACK_FAILED with the
\* manager's error text behind its tag.
C13_Witness ==
    /\ px.called /\ px.entry = "handle_server_event"
    /\ px.ret.code = ERR_CALLBACK_FAILED
    /\ px.ret.msg = "Handle server event: not found"

\* the reverse lookup of the pixel-format tags: tag i is ReverseFormat[i + 1]
ReverseFormat == <<"Raw", "ABGR", "ARGB">>

\* C14: the format tag the video callback receives is 0 for Raw, 1 for ABGR
\* and 2 for ARGB, whatever the other arguments of the frame; distinct
\* formats have distinct tags, and the reverse lookup of the tag is the
\* format that was passed.
C14_FormatTagIsInjective ==
    /\ \A f, g \in ImageFormats : ImageFormatToU32(f) = ImageFormatToU32(g) => f = g
    /\ (vf.called /\ vf.invoked = 1 =>
            /\ vf.a_format \in 0..2
            /\ ReverseFormat[vf.a_format + 1] = vf.format
            /\ (vf.format = "Raw" => vf.a_format = 0)
            /\ (vf.format = "ABGR" => vf.a_format = 1)
            /\ (vf.format = "ARGB" => vf.a_format = 2))

\* C14 witness: an ARGB frame was delivered with tag 2 while its width and
\* its display index were narrowed.
C14_Witness ==
    /\ vf.called /\ vf.invoked = 1
    /\ vf.format = "ARGB" /\ vf.a_format = 2
    /\ vf.a_display # vf.display /\ vf.a_width # vf.width

(***************************************************************************)
(* A reader of the listing, as a host would parse it: a JSON array of      *)
(* objects with the keys desc, path and uninstalled, in that order.        *)
(***************************************************************************)
Matches(t, i, lit) ==
    /\ i + Len(lit) - 1 <= Len(t)
    /\ SubSeq(t, i, i + Len(lit) - 1) = lit

Unparsed == [ok |-> FALSE, val |-> <<>>, next |-> 0]

\* the characters of a string literal from position i to its closing quote
RECURSIVE ReadChars(_, _)
ReadChars(t, i) ==
    IF i > Len(t) THEN Unparsed
    ELSE IF t[i] = 34 THEN [ok |-> TRUE, val |-> <<>>, next |-> i + 1]
    ELSE LET escaped == t[i] = 92
             rest == IF escaped THEN ReadChars(t, i + 2) ELSE ReadChars(t, i + 1)
         IN  IF (escaped /\ i + 1 > Len(t)) \/ ~rest.ok THEN Unparsed
             ELSE [ok |-> TRUE,
                   val |-> <<IF escaped THEN t[i + 1] ELSE t[i]>> \o rest.val,
                   next |-> rest.next]

ReadString(t, i) == IF Matches(t, i, <<34>>) THEN ReadChars(t, i + 1) ELSE Unparsed

ReadBool(t, i) ==
    IF Matches(t, i, <<116, 114, 117, 101>>)
    THEN [ok |-> TRUE, val |-> TRUE, next |-> i + 4]
    ELSE IF Matches(t, i, <<102, 97, 108, 115, 101>>)
    THEN [ok |-> TRUE, val |-> FALSE, next |-> i + 5]
    ELSE Unparsed

DescKey == <<123, 34, 100, 101, 115, 99, 34, 58>>
PathKey == <<44, 34, 112, 97, 116, 104, 34, 58>>
UninstalledKey == <<44, 34, 117, 110, 105, 110, 115, 116, 97, 108, 108, 101, 100, 34, 58>>

ReadObject(t, i) ==
    IF ~Matches(t, i, DescKey) THEN Unparsed
    ELSE LET d == ReadString(t, i + Len(DescKey))
         IN  IF ~d.ok \/ ~Matches(t, d.next, PathKey) THEN Unparsed
             ELSE LET p == ReadString(t, d.next + Len(PathKey))
                  IN  IF ~p.ok \/ ~Matches(t, p.next, UninstalledKey) THEN Unparsed
                      ELSE LET u == ReadBool(t, p.next + Len(UninstalledKey))
                           IN  IF ~u.ok \/ ~Matches(t, u.next, <<125>>) THEN Unparsed
                               ELSE [ok |-> TRUE,
                                     val |-> [desc |-> d.val, path |-> p.val,
                                              uninstalled |-> u.val],
                                     next |-> u.next + 1]

RECURSIVE ReadObjects(_, _)
ReadObjects(t, i) ==
    LET o == ReadObject(t, i)
    IN  IF ~o.ok THEN Unparsed
        ELSE IF Matches(t, o.next, <<93>>)
        THEN [ok |-> TRUE, val |-> <<o.val>>, next |-> o.next + 1]
        ELSE IF ~Matches(t, o.next, <<44>>) THEN Unparsed
        ELSE LET rest == ReadObjects(t, o.next + 1)
             IN  IF ~rest.ok THEN Unparsed
                 ELSE [ok |-> TRUE, val |-> <<o.val>> \o rest.val, next |-> rest.next]

\* the entries of a returned C string, or a failure
ReadListing(cstr) ==
    IF cstr = <<>> \/ cstr[Len(cstr)] # NUL \/ ~Matches(cstr, 1, <<91>>) THEN Unparsed
    ELSE LET t == SubSeq(cstr, 1, Len(cstr) - 1)
             l == IF Matches(t, 2, <<93>>)
                  THEN [ok |-> TRUE, val |-> <<>>, next |-> 3]
                  ELSE ReadObjects(t, 2)
         IN  IF l.ok /\ l.next = Len(t) + 1 THEN l ELSE Unparsed

\* C15: the text rustdesk_unity_get_plugins returns reads back as a list
\* with one {desc, path, uninstalled} entry per descriptor of the table it
\* read, each entry carrying the values of its descriptor, in some order of
\* the table; for an empty table the text is exactly []; and the call reads
\* the table as it is and leaves it as it is.
C15_ListingMirrorsTable ==
    /\ [](gp.called =>
            LET l == ReadListing(gp.text)
            IN  /\ l.ok
                /\ Len(l.val) = Cardinality(DOMAIN gp.snapshot)
                /\ \E order \in ValueOrders(gp.snapshot) :
                      \A i \in DOMAIN order :
                          /\ l.val[i].desc = gp.snapshot[order[i]].desc
                          /\ l.val[i].path = gp.snapshot[order[i]].path
                          /\ l.val[i].uninstalled = gp.snapshot[order[i]].uninstalled
                /\ (DOMAIN gp.snapshot = {} => gp.text = <<91, 93, NUL>>))
    /\ [][\A order \in ValueOrders(infos) :
            GetPlugins(order) => infos' = infos /\ gp'.snapshot = infos]_vars

\* C15 witness: a listing of two plugins with different descriptors, one of
\* them with a quote for its description and a backslash for its path.
C15_Witness ==
    /\ gp.called
    /\ DOMAIN gp.snapshot = PluginIds
    /\ gp.snapshot["a"] = PluginInfo(<<34>>, <<92>>, TRUE)
    /\ gp.snapshot["b"] = PluginInfo(<<100>>, <<47, 112>>, FALSE)
    /\ gp.payload[1] = JsonObject(gp.snapshot["b"])

\* C16 (as claimed): no call into the bridge ends in a panic or an abort,
\* and every call in progress can go on to its return, in every reachable
\* state: also when a host callback calls back into the bridge and a lock
\* on the callback slot has to be acquired.
C16_EveryCallReturnsNormally == ~aborted /\ NoDeadlock

\* C16 witness of the failure: the process was aborted by a panic of
\* RwLock::write in a register call made by a running event callback.
C16_AbortedInNestedRegister ==
    /\ aborted
    /\ \E t \in Threads :
          /\ Depth(t) = 2
          /\ stack[t][1].fn = "dispatch" /\ stack[t][1].kind = "event"
          /\ stack[t][1].pc = "in_callback"
          /\ At(t, "register", "event", "write_wait")

\* C17: both slots start empty; a step changes the event slot only if it is
\* a call of rustdesk_unity_register_event_callback, and then to its
\* argument, and the video slot only if it is a call of
\* rustdesk_unity_register_video_frame_callback, and then to its argument;
\* a registration leaves the slot of the other kind as it is.  So every
\* dispatch and every other entry point leaves both slots unchanged.
C17_SlotsChangeOnlyByRegistration ==
    /\ \A k \in Kinds : slot[k] = None
    /\ [][
          /\ slot'["event"] # slot["event"] =>
                \E cb \in CallbackArgs : RegisterEventCallback(cb) /\ slot'["event"] = cb
          /\ slot'["video"] # slot["video"] =>
                \E cb \in CallbackArgs : RegisterVideoFrameCallback(cb) /\ slot'["video"] = cb
          /\ (\E cb \in CallbackArgs : RegisterEventCallback(cb))
                => slot'["video"] = slot["video"]
          /\ (\E cb \in CallbackArgs : RegisterVideoFrameCallback(cb))
                => slot'["event"] = slot["event"]
       ]_vars

\* C17 witness: with a callback registered in each slot, a frame was
\* dropped for its peer id and both slots still hold their callbacks.
C17_Witness ==
    /\ slot["event"] = Fn(1) /\ slot["video"] = Fn(2)
    /\ vf.called /\ vf.invoked = 0 /\ vf.seen = Fn(2)
    /\ lastReg["event"] = Fn(1)

\* no register call of kind k is in progress
RegistrationIdle(k) ==
    \A t \in Threads : \A f \in Frames(t) : ~(f.fn = "register" /\ f.kind = k)

\* C18 (as claimed): an invocation of a video callback begins only while
\* that callback is the content of the slot: whenever a notify_video_frame
\* call is about to invoke the callback it holds and no registration is in
\* progress, that callback is the one the last registration stored.
C18_InvokesOnlyCurrent ==
    \A t \in Threads :
        ENABLED VideoInvoke(t) /\ RegistrationIdle("video") =>
            Top(t).cb = slot["video"]

\* C18 (amended): a notify_video_frame call copies, under the read lock, the
\* argument of the last registration that has returned, and the invocation
\* that follows is of that copy.  So a call that reads the slot after a
\* registration has returned never invokes the callback it replaced, while
\* a call that read the slot before may still invoke it afterwards.
C18_InvokesWhatItRead ==
    /\ [][\A t \in Threads :
            VideoRead(t) \/ VideoSlotEmpty(t) \/ VideoEncodeFailed(t) =>
                /\ stack'[t][Depth(t)].cb = lastReg["video"]
                /\ writer["video"] = NoThread]_vars
    /\ [][\A t \in Threads :
            VideoInvoke(t) =>
                /\ stack'[t][Depth(t)].cb = Top(t).cb
                /\ Top(t).cb \in HostFns]_vars

\* C18 witness: a notify_video_frame call has copied a callback and is about
\* to invoke it, after a registration of another thread that replaced it
\* has returned.
C18_Witness ==
    \E t \in Threads :
        /\ At(t, "dispatch", "video", "copied")
        /\ RegistrationIdle("video")
        /\ Top(t).cb = Fn(1)
        /\ lastReg["video"] = Fn(2)
        /\ slot["video"] = Fn(2)

\* C19 (as claimed): the display, width, height and stride the callback
\* receives are the values notify_video_frame received or derived, none
\* changed by narrowing to 32 bits: the stride delivered is not smaller than
\* the stride hint nor than buffer_length / height, and the width * 4 of
\* the fallback is the product itself.
C19_NarrowingKeepsValues ==
    vf.called /\ vf.invoked = 1 =>
        /\ vf.a_display = vf.display
        /\ vf.a_width = vf.width
        /\ vf.a_height = vf.height
        /\ vf.a_stride = DerivedStride(vf.width, vf.height, vf.hint, vf.len)
        /\ vf.a_stride >= vf.hint
        /\ (vf.height > 0 => vf.a_stride >= vf.len \div vf.height)
        /\ SaturatingMul(vf.width, 4) = vf.width * 4

\* C19 witness of the failure: a stride hint of exactly 2^32 (the modulus of
\* the callback's integers) was delivered as stride 0.
C19_HintWrappedToZero ==
    /\ vf.called /\ vf.invoked = 1
    /\ vf.hint = U32Modulus
    /\ vf.width = 0 /\ vf.height = 0
    /\ vf.a_stride = 0

====
